---- MODULE Spec2Model ----
(***************************************************************************)
(* TextStateManager of pypdf's layout-mode text extraction                 *)
(* (pypdf/_text_extraction/_layout_mode/_text_state_manager.py).           *)
(*                                                                         *)
(* The manager is modelled attribute by attribute.  transform_stack is the *)
(* list ChainMap.maps: its FIRST element is maps[0], the most recently     *)
(* pushed frame, its last element is the root frame.  Every public method  *)
(* is one action; an exception raised by a method is recorded in err, and  *)
(* the value a method returns in ret.  Floats are modelled by integers     *)
(* (every coefficient used is a small integer, exact in a float).          *)
(***************************************************************************)
EXTENDS Integers, Sequences, FiniteSets, TLC

VARIABLES
    transform_stack,  \* ChainMap.maps, maps[0] first
    q_queue,          \* Counter: scope identifier -> number of cm frames
    q_depth,          \* list of open scope identifiers, innermost last
    Tc, Tw, Tz, TL, Ts,
    font,             \* <<>> is None, <<f>> a Font
    font_size,        \* <<>> is None, <<n>> a number
    ret,              \* what the last call returned
    err,              \* the exception the last call raised, or "ok"
    op,               \* the last call: its name and argument
    trace,            \* calls since construction (<<>>: not recorded)
    pushed_in         \* per frame of transform_stack: for a graphics frame
                      \* the innermost open scope identifier when it was
                      \* pushed; NoScope if none, and for text frames

vars == <<transform_stack, q_queue, q_depth, Tc, Tw, Tz, TL, Ts,
          font, font_size, ret, err, op, trace, pushed_in>>

scalars == <<Tc, Tw, Tz, TL, Ts>>
nesting == <<q_queue, q_depth>>
fontstate == <<font, font_size>>

(***************************************************************************)
(* Bounds of the model.                                                    *)
(***************************************************************************)
MaxFrames == 4   \* frames on the stack, the root included
MaxDepth == 3    \* open scope identifiers
MaxTrace == 6    \* recorded calls after construction
MaxBytes == 2    \* length of a show-text operand

(***************************************************************************)
(* Frames and matrices                                                     *)
(***************************************************************************)
Identity == <<1, 0, 0, 1, 0, 0>>

\* raw_transform / new_transform: positional arguments over the defaults
\* (1,0,0,1,0,0), then the two tags.
raw_transform(args) ==
    [i \in 1..6 |-> IF i <= Len(args) THEN args[i] ELSE Identity[i]]

new_transform(args, is_text, is_render) ==
    [coef |-> raw_transform(args), is_text |-> is_text, is_render |-> is_render]

\* The empty dict ChainMap() puts in maps when `parents` is taken of a
\* one-map chain; looking a tag up in it raises KeyError.
EmptyMap == [coef |-> <<>>, is_text |-> FALSE, is_render |-> FALSE]

\* ChainMap.parents: ChainMap(*maps[1:]); a ChainMap built from no map
\* holds one empty dict.
parents(maps) == IF Len(maps) <= 1 THEN <<EmptyMap>> ELSE Tail(maps)

\* ChainMap.new_child(m): m becomes maps[0].
new_child(maps, m) == <<m>> \o maps

\* dict.values() of a frame, in insertion order: keys 0..5, "is_text",
\* "is_render".
values(frame) ==
    IF frame = EmptyMap THEN <<>>
    ELSE frame.coef \o <<frame.is_text, frame.is_render>>

\* pypdf._text_extraction.mult(m, n): "apply m, then n"; reads m[0..5] and
\* n[0..5] and returns six coefficients.
mult(m, n) ==
    << m[1] * n[1] + m[2] * n[3],
       m[1] * n[2] + m[2] * n[4],
       m[3] * n[1] + m[4] * n[3],
       m[3] * n[2] + m[4] * n[4],
       m[5] * n[1] + m[6] * n[3] + n[5],
       m[5] * n[2] + m[6] * n[4] + n[6] >>

Raised == <<"raised">>

\* Variant of fold_mult: the operands of mult are exchanged.
RECURSIVE fold_mult_exchanged(_, _)
fold_mult_exchanged(eff, rest) ==
    IF rest = <<>> THEN eff
    ELSE IF Len(eff) < 6 \/ Head(rest) = EmptyMap THEN Raised
    ELSE fold_mult_exchanged(mult(Head(rest).coef, eff), Tail(rest))

RECURSIVE fold_mult(_, _)
fold_mult(eff, rest) ==
    IF rest = <<>> THEN eff
    ELSE IF Len(eff) < 6 \/ Head(rest) = EmptyMap THEN Raised
    ELSE fold_mult(mult(eff, Head(rest).coef), Tail(rest))

\* effective_transform: the values of maps[0], then mult with every map of
\* maps[1:] in turn.  Raised when maps is empty or a lookup fails.
effective_transform_of(maps) ==
    IF maps = <<>> THEN Raised
    ELSE fold_mult(values(Head(maps)), Tail(maps))

effective_transform == effective_transform_of(transform_stack)

\* flip_vertical
flip_vertical ==
    Len(effective_transform) >= 4 /\ effective_transform[4] < 0

(***************************************************************************)
(* reset_tm / reset_trm loops.  Each returns the maps the loop stops at    *)
(* and the exception that stopped it, if any.                              *)
(***************************************************************************)
RECURSIVE reset_tm_loop(_)
reset_tm_loop(maps) ==
    IF maps = <<>> THEN [maps |-> maps, err |-> "IndexError"]
    ELSE IF Head(maps) = EmptyMap THEN [maps |-> maps, err |-> "KeyError"]
    ELSE IF Head(maps).is_text \/ Head(maps).is_render
         THEN reset_tm_loop(parents(maps))
    ELSE [maps |-> maps, err |-> "ok"]

RECURSIVE reset_trm_loop(_)
reset_trm_loop(maps) ==
    IF maps = <<>> THEN [maps |-> maps, err |-> "IndexError"]
    ELSE IF Head(maps) = EmptyMap THEN [maps |-> maps, err |-> "KeyError"]
    ELSE IF Head(maps).is_render THEN reset_trm_loop(parents(maps))
    ELSE [maps |-> maps, err |-> "ok"]

\* Variant of Drop: the slice starts one map too far.
Drop_one_more(maps, n) == SubSeq(maps, n + 2, Len(maps))

\* maps[n:]
Drop(maps, n) == SubSeq(maps, n + 1, Len(maps))

\* Counter.update([k]) and Counter.pop(k, 0)
counter_update(c, k) ==
    [x \in DOMAIN c \cup {k} |-> IF x = k
                                  THEN (IF k \in DOMAIN c THEN c[k] + 1 ELSE 1)
                                  ELSE c[x]]
counter_get(c, k) == IF k \in DOMAIN c THEN c[k] ELSE 0
counter_remove(c, k) == [x \in DOMAIN c \ {k} |-> c[x]]

\* _complete_matrix: a two-operand list is a translation
_complete_matrix(operands) ==
    IF Len(operands) = 2 THEN <<1, 0, 0, 1>> \o operands ELSE operands

(***************************************************************************)
(* Bookkeeping shared by the actions                                       *)
(***************************************************************************)
None == [kind |-> "None", val |-> <<>>]
Returned(kind, val) == [kind |-> kind, val |-> val]

IsTagged(maps) ==
    maps # <<>> /\ Head(maps) # EmptyMap
    /\ (Head(maps).is_text \/ Head(maps).is_render)

\* The manager's state as a caller can read it
ManagerState ==
    [maps |-> transform_stack, nesting |-> nesting, scalars |-> scalars,
     fontstate |-> fontstate]

\* A recorded call: eff and tagged describe the stack the call left, at_call
\* is the state it was made in, ret what it returned.
Entry(name, arg, maps) ==
    [name |-> name, arg |-> arg, eff |-> effective_transform_of(maps),
     tagged |-> IsTagged(maps), at_call |-> ManagerState, ret |-> None]

\* pushed_in follows transform_stack: Kept(n) are the entries of the n frames
\* nearest the root, Innermost the identifier a new frame is pushed under.
NoScope == -1
Kept(n) == SubSeq(pushed_in, Len(pushed_in) - n + 1, Len(pushed_in))
Innermost == IF q_depth = <<>> THEN NoScope ELSE q_depth[Len(q_depth)]

CanCall == trace = <<>> \/ Len(trace) <= MaxTrace

Called(name, arg, maps) ==
    /\ op' = [name |-> name, arg |-> arg]
    /\ trace' = IF trace = <<>> THEN <<>>
                ELSE Append(trace, [Entry(name, arg, maps) EXCEPT !.ret = ret'])

(***************************************************************************)
(* __init__                                                                *)
(***************************************************************************)
\* Variant of InitManager: q_depth starts empty.
InitManager_no_scope ==
    /\ transform_stack = <<new_transform(<<>>, FALSE, FALSE)>>
    /\ q_queue = <<>>
    /\ q_depth = <<>>
    /\ Tc = 0 /\ Tw = 0 /\ Tz = 100 /\ TL = 0 /\ Ts = 0
    /\ font = <<>>
    /\ font_size = <<>>
    /\ ret = None
    /\ err = "ok"
    /\ op = [name |-> "__init__", arg |-> <<>>]
    /\ pushed_in = <<NoScope>>

InitManager ==
    /\ transform_stack = <<new_transform(<<>>, FALSE, FALSE)>>
    /\ q_queue = <<>>
    /\ q_depth = <<0>>
    /\ Tc = 0 /\ Tw = 0 /\ Tz = 100 /\ TL = 0 /\ Ts = 0
    /\ font = <<>>
    /\ font_size = <<>>
    /\ ret = None
    /\ err = "ok"
    /\ op = [name |-> "__init__", arg |-> <<>>]
    /\ pushed_in = <<NoScope>>

Init == InitManager /\ trace = <<>>

InitTraced ==
    /\ InitManager
    /\ trace = <<Entry("__init__", <<>>, <<new_transform(<<>>, FALSE, FALSE)>>)>>

(***************************************************************************)
(* Transform stack and nesting operations                                  *)
(***************************************************************************)
reset_tm ==
    /\ CanCall
    /\ LET r == reset_tm_loop(transform_stack) IN
       /\ transform_stack' = r.maps
       /\ err' = r.err
       /\ ret' = IF r.err = "ok" THEN Returned("ChainMap", r.maps) ELSE None
       /\ Called("reset_tm", <<>>, r.maps)
       /\ pushed_in' = Kept(Len(r.maps))
    /\ UNCHANGED <<nesting, scalars, fontstate>>

reset_trm ==
    /\ CanCall
    /\ LET r == reset_trm_loop(transform_stack) IN
       /\ transform_stack' = r.maps
       /\ err' = r.err
       /\ ret' = IF r.err = "ok" THEN Returned("ChainMap", r.maps) ELSE None
       /\ Called("reset_trm", <<>>, r.maps)
       /\ pushed_in' = Kept(Len(r.maps))
    /\ UNCHANGED <<nesting, scalars, fontstate>>

\* Variant of remove_q_result: the scope is closed but maps is not sliced.
remove_q_result_unsliced(maps, queue, depth) ==
    LET r == reset_tm_loop(maps) IN
    IF r.err # "ok"
    THEN [maps |-> r.maps, queue |-> queue, depth |-> depth, err |-> r.err]
    ELSE IF depth = <<>>
    THEN [maps |-> r.maps, queue |-> queue, depth |-> depth, err |-> "IndexError"]
    ELSE [maps |-> r.maps,
          queue |-> counter_remove(queue, depth[Len(depth)]),
          depth |-> SubSeq(depth, 1, Len(depth) - 1),
          err |-> "ok"]

\* Variant of remove_q_result: maps is sliced as it stands, without reset_tm.
remove_q_result_no_reset(maps, queue, depth) ==
    IF depth = <<>>
    THEN [maps |-> maps, queue |-> queue, depth |-> depth, err |-> "IndexError"]
    ELSE LET id == depth[Len(depth)]
             n == counter_get(queue, id)
         IN [maps |-> Drop(maps, n),
             queue |-> counter_remove(queue, id),
             depth |-> SubSeq(depth, 1, Len(depth) - 1),
             err |-> "ok"]

\* Variant of remove_q_result: the count is read with get and stays recorded.
remove_q_result_count_kept(maps, queue, depth) ==
    LET r == reset_tm_loop(maps) IN
    IF r.err # "ok"
    THEN [maps |-> r.maps, queue |-> queue, depth |-> depth, err |-> r.err]
    ELSE IF depth = <<>>
    THEN [maps |-> r.maps, queue |-> queue, depth |-> depth, err |-> "IndexError"]
    ELSE LET id == depth[Len(depth)]
             n == counter_get(queue, id)
         IN [maps |-> Drop(r.maps, n),
             queue |-> queue,
             depth |-> SubSeq(depth, 1, Len(depth) - 1),
             err |-> "ok"]

\* remove_q: reset_tm, then q_depth.pop(), then q_queue.pop(id, 0), then the
\* slice of maps.
remove_q_result(maps, queue, depth) ==
    LET r == reset_tm_loop(maps) IN
    IF r.err # "ok"
    THEN [maps |-> r.maps, queue |-> queue, depth |-> depth, err |-> r.err]
    ELSE IF depth = <<>>
    THEN [maps |-> r.maps, queue |-> queue, depth |-> depth, err |-> "IndexError"]
    ELSE LET id == depth[Len(depth)]
             n == counter_get(queue, id)
         IN [maps |-> Drop(r.maps, n),
             queue |-> counter_remove(queue, id),
             depth |-> SubSeq(depth, 1, Len(depth) - 1),
             err |-> "ok"]

remove_q ==
    /\ CanCall
    /\ LET r == remove_q_result(transform_stack, q_queue, q_depth) IN
       /\ transform_stack' = r.maps
       /\ q_queue' = r.queue
       /\ q_depth' = r.depth
       /\ err' = r.err
       /\ ret' = IF r.err = "ok" THEN Returned("ChainMap", r.maps) ELSE None
       /\ Called("remove_q", <<>>, r.maps)
       /\ pushed_in' = Kept(Len(r.maps))
    /\ UNCHANGED <<scalars, fontstate>>

\* Variant of add_q: the identifier is len(q_queue).
add_q_from_queue ==
    /\ CanCall
    /\ Len(q_depth) < MaxDepth
    /\ q_depth' = Append(q_depth, Cardinality(DOMAIN q_queue))
    /\ err' = "ok"
    /\ ret' = None
    /\ Called("add_q", <<>>, transform_stack)
    /\ UNCHANGED <<transform_stack, q_queue, scalars, fontstate, pushed_in>>

\* Variant of add_q: an identity frame is pushed for the new scope.
add_q_with_frame ==
    /\ CanCall
    /\ Len(q_depth) < MaxDepth
    /\ q_depth' = Append(q_depth, Len(q_depth))
    /\ transform_stack'
         = new_child(transform_stack, new_transform(<<>>, FALSE, FALSE))
    /\ pushed_in' = <<NoScope>> \o pushed_in
    /\ err' = "ok"
    /\ ret' = None
    /\ Called("add_q", <<>>, transform_stack')
    /\ UNCHANGED <<q_queue, scalars, fontstate>>

add_q ==
    /\ CanCall
    /\ Len(q_depth) < MaxDepth
    /\ q_depth' = Append(q_depth, Len(q_depth))
    /\ err' = "ok"
    /\ ret' = None
    /\ Called("add_q", <<>>, transform_stack)
    /\ UNCHANGED <<transform_stack, q_queue, scalars, fontstate, pushed_in>>

\* Variant of add_cm_result: the count is set to one instead of incremented.
add_cm_result_counts_once(maps, queue, depth, args) ==
    LET r == reset_tm_loop(maps) IN
    IF r.err # "ok"
    THEN [maps |-> r.maps, queue |-> queue, err |-> r.err]
    ELSE [maps |-> new_child(r.maps, new_transform(args, FALSE, FALSE)),
          queue |-> IF depth = <<>> THEN queue
                    ELSE [x \in DOMAIN queue \cup {depth[Len(depth)]} |->
                            IF x = depth[Len(depth)] THEN 1 ELSE queue[x]],
          err |-> "ok"]

\* Variant of add_cm_result: the push is registered against q_depth[:1], the
\* outermost open scope.
add_cm_result_outermost(maps, queue, depth, args) ==
    LET r == reset_tm_loop(maps) IN
    IF r.err # "ok"
    THEN [maps |-> r.maps, queue |-> queue, err |-> r.err]
    ELSE [maps |-> new_child(r.maps, new_transform(args, FALSE, FALSE)),
          queue |-> IF depth = <<>> THEN queue
                    ELSE counter_update(queue, depth[1]),
          err |-> "ok"]

\* Variant of add_cm_result: reset_trm is called in place of reset_tm.
add_cm_result_reset_trm(maps, queue, depth, args) ==
    LET r == reset_trm_loop(maps) IN
    IF r.err # "ok"
    THEN [maps |-> r.maps, queue |-> queue, err |-> r.err]
    ELSE [maps |-> new_child(r.maps, new_transform(args, FALSE, FALSE)),
          queue |-> IF depth = <<>> THEN queue
                    ELSE counter_update(queue, depth[Len(depth)]),
          err |-> "ok"]

\* Variant of add_cm_result: the frame is pushed without reset_tm.
add_cm_result_no_reset(maps, queue, depth, args) ==
    [maps |-> new_child(maps, new_transform(args, FALSE, FALSE)),
     queue |-> IF depth = <<>> THEN queue
               ELSE counter_update(queue, depth[Len(depth)]),
     err |-> "ok"]

\* add_cm: reset_tm, then q_queue.update(q_depth[-1:]), then new_child.
add_cm_result(maps, queue, depth, args) ==
    LET r == reset_tm_loop(maps) IN
    IF r.err # "ok"
    THEN [maps |-> r.maps, queue |-> queue, err |-> r.err]
    ELSE [maps |-> new_child(r.maps, new_transform(args, FALSE, FALSE)),
          queue |-> IF depth = <<>> THEN queue
                    ELSE counter_update(queue, depth[Len(depth)]),
          err |-> "ok"]

add_cm(args) ==
    /\ CanCall
    /\ Len(reset_tm_loop(transform_stack).maps) < MaxFrames
    /\ LET r == add_cm_result(transform_stack, q_queue, q_depth, args) IN
       /\ transform_stack' = r.maps
       /\ q_queue' = r.queue
       /\ err' = r.err
       /\ ret' = IF r.err = "ok" THEN Returned("ChainMap", r.maps) ELSE None
       /\ Called("add_cm", args, r.maps)
       /\ pushed_in' = IF r.err = "ok"
                       THEN <<Innermost>> \o Kept(Len(r.maps) - 1)
                       ELSE Kept(Len(r.maps))
    /\ UNCHANGED <<q_depth, scalars, fontstate>>

\* Variant of trm_frame: is_text is left at its default.
trm_frame_render_only(operands) ==
    new_transform(_complete_matrix(operands), FALSE, TRUE)

\* The frames add_tm and add_trm push
tm_frame(operands) == new_transform(_complete_matrix(operands), TRUE, FALSE)
trm_frame(operands) == new_transform(_complete_matrix(operands), TRUE, TRUE)

add_tm(operands) ==
    /\ CanCall
    /\ Len(transform_stack) < MaxFrames
    /\ transform_stack' = new_child(transform_stack, tm_frame(operands))
    /\ err' = "ok"
    /\ ret' = Returned("ChainMap", transform_stack')
    /\ Called("add_tm", operands, transform_stack')
    /\ pushed_in' = <<NoScope>> \o pushed_in
    /\ UNCHANGED <<nesting, scalars, fontstate>>

add_trm(operands) ==
    /\ CanCall
    /\ Len(transform_stack) < MaxFrames
    /\ transform_stack' = new_child(transform_stack, trm_frame(operands))
    /\ err' = "ok"
    /\ ret' = Returned("ChainMap", transform_stack')
    /\ Called("add_trm", operands, transform_stack')
    /\ pushed_in' = <<NoScope>> \o pushed_in
    /\ UNCHANGED <<nesting, scalars, fontstate>>

(***************************************************************************)
(* Text: bytes are integers 0..255, a str is a sequence of code points.    *)
(***************************************************************************)
ReplacementChar == 65533   \* U+FFFD

\* The byte values the model draws from: an ASCII letter, a UTF-8
\* continuation byte, the lead byte of a two-byte UTF-8 sequence and a byte
\* that is valid nowhere in UTF-8.  None is the lead byte of a three- or
\* four-byte sequence (224..244) or the high byte of a UTF-16 surrogate
\* (216..223), so the decoders below need no case for those.
Bytes == {65, 169, 195, 255}

ByteStrings(n) == UNION {[1..k -> Bytes] : k \in 0..n}

IsContinuation(x) == 128 <= x /\ x <= 191
IsLead2(x) == 194 <= x /\ x <= 223

\* bytes.decode("utf-8", "replace")
RECURSIVE utf8_replace(_)
utf8_replace(b) ==
    IF b = <<>> THEN <<>>
    ELSE IF Head(b) < 128 THEN <<Head(b)>> \o utf8_replace(Tail(b))
    ELSE IF IsLead2(Head(b)) /\ Len(b) >= 2 /\ IsContinuation(b[2])
         THEN <<(Head(b) - 192) * 64 + (b[2] - 128)>>
              \o utf8_replace(Tail(Tail(b)))
    ELSE <<ReplacementChar>> \o utf8_replace(Tail(b))

\* bytes.decode(codec, "surrogatepass") for the codecs a font names.  The
\* handler passes surrogates only; any other error is raised.
codec_raises(codec, b) ==
    CASE codec = "ascii" -> \E i \in 1..Len(b) : b[i] >= 128
      [] codec = "utf-16-be" -> Len(b) % 2 = 1
      [] codec = "charmap" -> FALSE

codec_decode(codec, b) ==
    CASE codec = "ascii" -> b
      [] codec = "utf-16-be" ->
           [i \in 1..(Len(b) \div 2) |-> b[2 * i - 1] * 256 + b[2 * i]]
      [] codec = "charmap" -> b

\* "".join(s for ...) over a sequence of strings
RECURSIVE join(_)
join(parts) == IF parts = <<>> THEN <<>> ELSE Head(parts) \o join(Tail(parts))

\* The table branch: encoding[x] if x in encoding else bytes((x,)).decode();
\* the latter is a strict UTF-8 decode of one byte.
table_raises(table, b) ==
    \E i \in 1..Len(b) : b[i] \notin DOMAIN table /\ b[i] >= 128

table_decode(table, b) ==
    join([i \in 1..Len(b) |->
            IF b[i] \in DOMAIN table THEN table[b[i]] ELSE <<b[i]>>])

\* char_map[x] if x in char_map else x, joined
apply_char_map(char_map, text) ==
    join([i \in 1..Len(text) |->
            IF text[i] \in DOMAIN char_map THEN char_map[text[i]]
            ELSE <<text[i]>>])

\* The try block of decode: does the font's encoding raise on b
encoding_raises(f, b) ==
    IF f.encoding.is_str THEN codec_raises(f.encoding.codec, b)
    ELSE table_raises(f.encoding.table, b)

\* Variant of decode_result: the decode error is not caught.
decode_result_uncaught(fnt, b) ==
    IF fnt = <<>> THEN [err |-> "PdfReadError", text |-> <<>>]
    ELSE LET f == fnt[1] IN
         IF encoding_raises(f, b)
         THEN [err |-> "UnicodeDecodeError", text |-> <<>>]
         ELSE [err |-> "ok",
               text |-> apply_char_map(f.char_map,
                          IF f.encoding.is_str
                          THEN codec_decode(f.encoding.codec, b)
                          ELSE table_decode(f.encoding.table, b))]

\* decode(_b): [err, text]
decode_result(fnt, b) ==
    IF fnt = <<>> THEN [err |-> "PdfReadError", text |-> <<>>]
    ELSE LET f == fnt[1]
             _text == IF encoding_raises(f, b) THEN utf8_replace(b)
                      ELSE IF f.encoding.is_str
                           THEN codec_decode(f.encoding.codec, b)
                      ELSE table_decode(f.encoding.table, b)
         IN [err |-> "ok", text |-> apply_char_map(f.char_map, _text)]

decode(b) ==
    /\ CanCall
    /\ LET r == decode_result(font, b) IN
       /\ err' = r.err
       /\ ret' = IF r.err = "ok" THEN Returned("str", r.text) ELSE None
    /\ Called("decode", b, transform_stack)
    /\ UNCHANGED <<transform_stack, nesting, scalars, fontstate, pushed_in>>

\* TextStateParams(txt, font, font_size, Tc, Tw, Tz, TL, Ts, transform)
TextStateParams(txt, f, size, c, w, z, l, s, transform) ==
    [txt |-> txt, font |-> f, font_size |-> size, Tc |-> c, Tw |-> w,
     Tz |-> z, TL |-> l, Ts |-> s, transform |-> transform]

\* Variant of text_state_params_result: only the font is required.
text_state_params_result_font_only(value) ==
    IF font = <<>>
    THEN [err |-> "PdfReadError", ret |-> None]
    ELSE LET d == decode_result(font, value.v) IN
         [err |-> "ok",
          ret |-> Returned("TextStateParams",
                    TextStateParams(IF value.is_str THEN value.v ELSE d.text,
                                    font[1], font_size,
                                    Tc, Tw, Tz, TL, Ts,
                                    effective_transform))]

\* text_state_params(value): value is [is_str, v]
\* Variant of text_state_params_result: Tc and Tw are passed in each other's
\* place.
text_state_params_result_Tw_first(value) ==
    IF font = <<>> \/ font_size = <<>>
    THEN [err |-> "PdfReadError", ret |-> None]
    ELSE LET d == decode_result(font, value.v) IN
         IF ~value.is_str /\ d.err # "ok" THEN [err |-> d.err, ret |-> None]
         ELSE IF effective_transform = Raised
         THEN [err |-> "IndexError", ret |-> None]
         ELSE [err |-> "ok",
               ret |-> Returned("TextStateParams",
                         TextStateParams(IF value.is_str THEN value.v ELSE d.text,
                                         font[1], font_size[1],
                                         Tw, Tc, Tz, TL, Ts,
                                         effective_transform))]

text_state_params_result(value) ==
    IF font = <<>> \/ font_size = <<>>
    THEN [err |-> "PdfReadError", ret |-> None]
    ELSE LET d == decode_result(font, value.v) IN
         IF ~value.is_str /\ d.err # "ok" THEN [err |-> d.err, ret |-> None]
         ELSE IF effective_transform = Raised
         THEN [err |-> "IndexError", ret |-> None]
         ELSE [err |-> "ok",
               ret |-> Returned("TextStateParams",
                         TextStateParams(IF value.is_str THEN value.v ELSE d.text,
                                         font[1], font_size[1],
                                         Tc, Tw, Tz, TL, Ts,
                                         effective_transform))]

text_state_params(value) ==
    /\ CanCall
    /\ LET r == text_state_params_result(value) IN
       /\ err' = r.err
       /\ ret' = r.ret
    /\ Called("text_state_params", value, transform_stack)
    /\ UNCHANGED <<transform_stack, nesting, scalars, fontstate, pushed_in>>

\* set_state_param(op, value); value[0] of an empty list raises IndexError
\* Variant of SupportedParams: Tz is missing from the list.
SupportedParams_without_Tz == {"Tc", "Tw", "TL", "Ts"}

SupportedParams == {"Tc", "Tz", "Tw", "TL", "Ts"}

set_state_param(name, value) ==
    /\ CanCall
    /\ ret' = None
    /\ Called("set_state_param", <<name, value>>, transform_stack)
    /\ UNCHANGED <<transform_stack, nesting, fontstate, pushed_in>>
    /\ IF name \notin SupportedParams
       THEN err' = "ok" /\ UNCHANGED scalars
       ELSE IF value.is_list /\ value.items = <<>>
       THEN err' = "IndexError" /\ UNCHANGED scalars
       ELSE LET x == IF value.is_list THEN value.items[1] ELSE value.num IN
            /\ err' = "ok"
            /\ Tc' = IF name = "Tc" THEN x ELSE Tc
            /\ Tz' = IF name = "Tz" THEN x ELSE Tz
            /\ Tw' = IF name = "Tw" THEN x ELSE Tw
            /\ TL' = IF name = "TL" THEN x ELSE TL
            /\ Ts' = IF name = "Ts" THEN x ELSE Ts

\* Font selection (the Tf operator): the caller assigns font and font_size.
Tf(f, size) ==
    /\ CanCall
    /\ font' = f
    /\ font_size' = size
    /\ err' = "ok"
    /\ ret' = None
    /\ Called("Tf", <<f, size>>, transform_stack)
    /\ UNCHANGED <<transform_stack, nesting, scalars, pushed_in>>

(***************************************************************************)
(* Inputs                                                                  *)
(***************************************************************************)
Scale2 == <<2, 0, 0, 2, 0, 0>>
Move100 == <<1, 0, 0, 1, 100, 100>>

\* A parameter value: a number, or a list of numbers
Number(x) == [is_list |-> FALSE, num |-> x, items |-> <<>>]
List(xs) == [is_list |-> TRUE, num |-> 0, items |-> xs]
Str(s) == [is_str |-> TRUE, v |-> s]
RawBytes(b) == [is_str |-> FALSE, v |-> b]

Codec(name) == [is_str |-> TRUE, codec |-> name, table |-> <<>>]
Table(t) == [is_str |-> FALSE, codec |-> "", table |-> t]
Font(encoding, char_map) == [encoding |-> encoding, char_map |-> char_map]

NoMap == <<>>
AsciiFont == Font(Codec("ascii"), NoMap)
Utf16Font == Font(Codec("utf-16-be"), NoMap)
CharmapFont == Font(Codec("charmap"), (65 :> <<97, 98>>))
TableFont == Font(Table((65 :> <<66>>) @@ (255 :> <<8364>>)), NoMap)
MarkerFont == Font(Codec("ascii"), (ReplacementChar :> <<63>>))

Fonts == {AsciiFont, Utf16Font, CharmapFont, TableFont, MarkerFont}

Optional(S) == {<<>>} \cup {<<x>> : x \in S}

(***************************************************************************)
(* Spec: every operator of a content stream, from a fresh manager          *)
(***************************************************************************)
Next ==
    \/ reset_tm
    \/ reset_trm
    \/ remove_q
    \/ add_q
    \/ \E args \in {Scale2, Move100} : add_cm(args)
    \/ \E operands \in {Move100, <<3, 4>>} : add_tm(operands)
    \/ add_trm(<<3, 4>>)
    \/ \E name \in {"Tc", "Tj"} : set_state_param(name, List(<<5>>))
    \/ text_state_params(RawBytes(<<195>>))
    \/ Tf(<<AsciiFont>>, <<12>>)

Spec == Init /\ [][Next]_vars

(***************************************************************************)
(* SpecTraced: the scope and show-text operators, every call recorded      *)
(***************************************************************************)
NextTraced ==
    \/ add_q
    \/ remove_q
    \/ \E args \in {Scale2, Move100} : add_cm(args)
    \/ add_tm(Move100)
    \/ Tf(<<AsciiFont>>, <<12>>)
    \/ text_state_params(Str(<<65>>))

SpecTraced == InitTraced /\ [][NextTraced]_vars

(***************************************************************************)
(* SpecText: font selection, decoding and snapshots                        *)
(***************************************************************************)
NextText ==
    \/ \E f \in Optional(Fonts), size \in Optional({12}) : Tf(f, size)
    \/ \E b \in ByteStrings(MaxBytes) : decode(b)
    \/ \E b \in ByteStrings(1) : text_state_params(RawBytes(b))
    \/ text_state_params(Str(<<65, 65533>>))
    \/ set_state_param("Tz", Number(50))
    \/ add_tm(<<3, 4>>)

SpecText == Init /\ [][NextText]_vars

\* The stack and scope operators alone, with one font and the scalars left at
\* their defaults
NextScopes ==
    \/ reset_tm
    \/ reset_trm
    \/ remove_q
    \/ add_q
    \/ \E args \in {Scale2, Move100} : add_cm(args)
    \/ add_tm(Move100)
    \/ add_trm(<<3, 4>>)
    \/ text_state_params(Str(<<65>>))
    \/ Tf(<<AsciiFont>>, <<12>>)

SpecScopes == Init /\ [][NextScopes]_vars

\* Snapshots and the operators applied after them, with the calls recorded
NextSnapshot ==
    \/ Tf(<<AsciiFont>>, <<12>>)
    \/ text_state_params(Str(<<65>>))
    \/ set_state_param("Tc", Number(5))
    \/ add_cm(Scale2)
    \/ add_tm(Move100)
    \/ remove_q

SpecSnapshot == InitTraced /\ [][NextSnapshot]_vars

(***************************************************************************)
(* SpecParams: the text state parameters                                   *)
(***************************************************************************)
ParamNames == {"Tc", "Tz", "Tw", "TL", "Ts", "Tf", "tc"}
ParamValues == {Number(5), List(<<5, 7>>), List(<<>>)}

NextParams ==
    \/ \E name \in ParamNames, value \in ParamValues :
          set_state_param(name, value)
    \/ Tf(<<AsciiFont>>, <<12>>)
    \/ text_state_params(Str(<<65>>))
    \/ add_q
    \/ add_cm(Scale2)

SpecParams == Init /\ [][NextParams]_vars

(***************************************************************************)
(* Properties                                                              *)
(***************************************************************************)
RootFrame == [coef |-> <<1, 0, 0, 1, 0, 0>>, is_text |-> FALSE, is_render |-> FALSE]

Range(f) == {f[i] : i \in DOMAIN f}

\* The names of the calls recorded at trace[from .. from + Len(names) - 1]
CallsAt(from, names) ==
    /\ Len(trace) >= from + Len(names) - 1
    /\ \A k \in 1..Len(names) : trace[from + k - 1].name = names[k]

\* C1: whenever add_q, add_cm(M), remove_q are called in a row from a state
\* whose stack holds graphics frames only, at whatever nesting depth, the
\* effective transform after remove_q equals the one before add_q.
C1_ScopeRoundTrip ==
    \A i \in 1..(Len(trace) - 3) :
        (CallsAt(i + 1, <<"add_q", "add_cm", "remove_q">>) /\ ~trace[i].tagged)
        => trace[i + 3].eff = trace[i].eff

\* Reached: the three calls made with two scopes open and a graphics frame
\* already pushed; the push changed the effective transform, the close undid it.
C1_Witness ==
    /\ Len(trace) >= 6
    /\ LET i == Len(trace) - 3 IN
       /\ CallsAt(i + 1, <<"add_q", "add_cm", "remove_q">>)
       /\ ~trace[i].tagged
       /\ Len(trace[i].eff) = 6
       /\ trace[i].eff # Identity
       /\ trace[i + 2].eff # trace[i].eff
       /\ trace[i + 3].eff = trace[i].eff
    /\ Len(q_depth) >= 2

NestedCalls == <<"__init__", "add_q", "add_q", "add_cm", "add_cm", "remove_q">>

\* C2 as stated: on a fresh manager, after add_q, add_q, add_cm(M1), add_cm(M2),
\* remove_q the effective transform is the one in effect after M1 alone, and
\* a second remove_q makes it the identity.
C2_AsStated ==
    CallsAt(1, NestedCalls)
    => /\ trace[6].eff = trace[4].eff
       /\ (CallsAt(7, <<"remove_q">>) => trace[7].eff = Identity)

\* C2 amended: both pushes were made in the inner scope, so the first
\* remove_q discards M1 and M2 alike and leaves the root frame alone, with the
\* effective transform of the fresh manager; a second remove_q changes none
\* of this.
C2_NestedScopes ==
    CallsAt(1, NestedCalls)
    => /\ trace[6].eff = trace[1].eff
       /\ (Len(trace) = 6 => transform_stack = <<RootFrame>>)
       /\ (CallsAt(7, <<"remove_q">>) => trace[7].eff = trace[1].eff)
       /\ ((CallsAt(7, <<"remove_q">>) /\ Len(trace) = 7)
           => transform_stack = <<RootFrame>>)

\* Reached: the whole sequence with two different matrices, both of which
\* changed the effective transform, followed by the second remove_q.
C2_Witness ==
    /\ CallsAt(1, NestedCalls \o <<"remove_q">>)
    /\ trace[4].arg # trace[5].arg
    /\ trace[4].eff # trace[1].eff
    /\ trace[5].eff # trace[4].eff
    /\ err = "ok"

ShowCalls == <<"__init__", "Tf", "add_q", "add_cm", "add_tm", "text_state_params">>

ShowScript ==
    /\ CallsAt(1, ShowCalls)
    /\ trace[4].arg = <<2, 0, 0, 2, 0, 0>>
    /\ trace[5].arg = <<1, 0, 0, 1, 100, 100>>

\* C3: on a fresh manager with a font selected, add_q, add_cm(2,0,0,2,0,0),
\* add_tm(1,0,0,1,100,100), show "A" gives the effective transform
\* (2,0,0,2,200,200) at the show step and in the snapshot, and the remove_q
\* that follows gives (1,0,0,1,0,0).
C3_EndToEnd ==
    ShowScript
    => /\ trace[6].eff = <<2, 0, 0, 2, 200, 200>>
       /\ (Len(trace) = 6 =>
             /\ ret.kind = "TextStateParams"
             /\ ret.val.transform = <<2, 0, 0, 2, 200, 200>>)
       /\ (CallsAt(7, <<"remove_q">>) => trace[7].eff = <<1, 0, 0, 1, 0, 0>>)

\* C4: with the root frame alone on the stack, effective_transform is the
\* six coefficients (1,0,0,1,0,0).
C4_FreshIsIdentity ==
    Len(transform_stack) = 1 => effective_transform = <<1, 0, 0, 1, 0, 0>>

\* C5: the stack is never empty and its bottom frame is the untagged
\* identity root frame.
C5_RootKept ==
    /\ transform_stack # <<>>
    /\ transform_stack[Len(transform_stack)] = RootFrame

\* Reached: a remove_q with no scope left to close (more closes than opens),
\* made while frames pushed outside every scope are on the stack.
C5_Witness ==
    /\ op.name = "remove_q"
    /\ err = "IndexError"
    /\ q_depth = <<>>
    /\ Len(transform_stack) >= 3
    /\ transform_stack[Len(transform_stack)] = RootFrame

IsGraphics(frame) == ~frame.is_text /\ ~frame.is_render

\* The untagged frames on the stack that were pushed under scope id
PushedUnder(id) ==
    {i \in 1..Len(transform_stack) :
        IsGraphics(transform_stack[i]) /\ pushed_in[i] = id}

\* C6: for every scope identifier, the count q_queue records for it is the
\* number of untagged frames on the stack that were pushed while it was the
\* innermost open scope.
C6_CountsMatchFrames ==
    /\ Len(pushed_in) = Len(transform_stack)
    /\ \A id \in 0..MaxDepth :
          counter_get(q_queue, id) = Cardinality(PushedUnder(id))
    /\ DOMAIN q_queue \subseteq 0..MaxDepth

\* Reached: an inner scope has just been closed, two graphics frames of an
\* enclosing scope are still counted and on the stack.
C6_Witness ==
    /\ op.name = "remove_q"
    /\ err = "ok"
    /\ \E id \in DOMAIN q_queue :
          q_queue[id] = 2 /\ Cardinality(PushedUnder(id)) = 2
    /\ Len(q_depth) >= 1

\* C7: text_state_params called with the font or the font_size unset raises
\* PdfReadError, for bytes and for str, returns nothing and changes neither
\* the stack, the nesting tracker nor the scalars.
C7_SnapshotNeedsFont ==
    [][(op'.name = "text_state_params" /\ (font = <<>> \/ font_size = <<>>))
       => /\ err' = "PdfReadError"
          /\ ret' = None
          /\ UNCHANGED <<transform_stack, q_queue, q_depth,
                         Tc, Tw, Tz, TL, Ts, font, font_size>>]_vars

\* Reached: a snapshot of raw bytes refused with a font selected but no
\* font_size, a text frame on the stack and a scalar changed.
C7_Witness ==
    /\ op.name = "text_state_params"
    /\ ~op.arg.is_str
    /\ op.arg.v # <<>>
    /\ font # <<>>
    /\ font_size = <<>>
    /\ err = "PdfReadError"
    /\ Len(transform_stack) >= 2
    /\ Tz = 50

ScalarOf == [Tc |-> Tc, Tw |-> Tw, Tz |-> Tz, TL |-> TL, Ts |-> Ts]
ScalarNames == {"Tc", "Tw", "Tz", "TL", "Ts"}

\* C8: set_state_param with a name other than Tc, Tw, Tz, TL, Ts raises
\* nothing and changes nothing; with one of these names it changes that
\* scalar alone, to the value or to the first element of a list.
C8_SetParam ==
    [][op'.name = "set_state_param"
       => LET name == op'.arg[1]
              value == op'.arg[2]
          IN /\ UNCHANGED <<transform_stack, q_queue, q_depth, font, font_size>>
             /\ name \notin ScalarNames
                => err' = "ok" /\ UNCHANGED <<Tc, Tw, Tz, TL, Ts>>
             /\ name \in ScalarNames
                => /\ \A other \in ScalarNames \ {name} :
                         ScalarOf'[other] = ScalarOf[other]
                   /\ ~value.is_list => ScalarOf'[name] = value.num
                   /\ (value.is_list /\ value.items # <<>>)
                      => ScalarOf'[name] = value.items[1]]_vars

\* Reached: an unrecognized name passed after scalars, font and stack had
\* all left their initial values; nothing was raised.
C8_Witness ==
    /\ op.name = "set_state_param"
    /\ op.arg[1] = "Tf"
    /\ err = "ok"
    /\ Tz = 5 /\ Ts = 5 /\ Tc = 0
    /\ font # <<>>
    /\ Len(transform_stack) >= 2

\* bytes that UTF-8 decodes without error
RECURSIVE IsValidUtf8(_)
IsValidUtf8(b) ==
    \/ b = <<>>
    \/ Head(b) < 128 /\ IsValidUtf8(Tail(b))
    \/ /\ Len(b) >= 2
       /\ IsLead2(b[1]) /\ IsContinuation(b[2])
       /\ IsValidUtf8(Tail(Tail(b)))

C10_RenderImpliesText ==
    \A i \in 1..Len(transform_stack) :
        transform_stack[i].is_render => transform_stack[i].is_text

\* Reached: add_trm has just pushed a render frame on top of a text frame.
C10_Witness ==
    /\ op.name = "add_trm"
    /\ Len(transform_stack) >= 3
    /\ transform_stack[1].is_render
    /\ transform_stack[2].is_text /\ ~transform_stack[2].is_render

\* compose(A, B), "apply A, then B", written out per coefficient
Compose(A, B) ==
    [i \in 1..6 |->
        CASE i = 1 -> A[1] * B[1] + A[2] * B[3]
          [] i = 2 -> A[1] * B[2] + A[2] * B[4]
          [] i = 3 -> A[3] * B[1] + A[4] * B[3]
          [] i = 4 -> A[3] * B[2] + A[4] * B[4]
          [] i = 5 -> A[5] * B[1] + A[6] * B[3] + B[5]
          [] i = 6 -> A[5] * B[2] + A[6] * B[4] + B[6]]

\* Left-to-right fold of Compose over the matrices ms, starting from acc
RECURSIVE FoldCompose(_, _)
FoldCompose(acc, ms) ==
    IF ms = <<>> THEN acc ELSE FoldCompose(Compose(acc, Head(ms)), Tail(ms))

Reverse(seq) == [i \in 1..Len(seq) |-> seq[Len(seq) + 1 - i]]
Coefs(maps) == [i \in 1..Len(maps) |-> maps[i].coef]

\* Root first, most recently pushed frame last
RootOutward(maps) ==
    LET ms == Reverse(Coefs(maps)) IN FoldCompose(Head(ms), Tail(ms))

\* Most recently pushed frame first, root last
TopInward(maps) ==
    LET ms == Coefs(maps) IN FoldCompose(Head(ms), Tail(ms))

FirstSix(t) == SubSeq(t, 1, 6)

\* C11 as stated: effective_transform is the left-to-right fold of compose
\* over the frames from the root outward (compared on its six coefficients).
C11_AsStated ==
    FirstSix(effective_transform) = RootOutward(transform_stack)

\* C11 amended: the effective transform a snapshot is built with is the
\* left-to-right fold of compose over the frames from the most recently
\* pushed one inward to the root; the fold starts from all the values of that
\* frame, so a stack of one frame gives its six coefficients followed by its
\* two tags.  Computing it leaves the stack as it was.
C11_FoldTopInward ==
    [][op'.name = "text_state_params"
       => /\ transform_stack' = transform_stack
          /\ effective_transform
               = IF Len(transform_stack) >= 2
                 THEN TopInward(transform_stack)
                 ELSE transform_stack[1].coef
                      \o <<transform_stack[1].is_text,
                           transform_stack[1].is_render>>
          /\ (err' = "ok" => ret'.val.transform = effective_transform)]_vars

\* Reached: a snapshot taken over a text frame, a graphics frame and the
\* root, where the two fold directions give different matrices.
C11_Witness ==
    /\ op.name = "text_state_params"
    /\ err = "ok"
    /\ Len(transform_stack) >= 3
    /\ TopInward(transform_stack) # RootOutward(transform_stack)
    /\ ret.val.transform = TopInward(transform_stack)

\* The untagged frames of maps, in stack order
Graphics(maps) == SelectSeq(maps, IsGraphics)

ScopeIds == 0..(MaxDepth + 1)

\* Every count but that of id is the same before and after the step
OtherCountsKept(id) ==
    \A other \in ScopeIds \ {id} :
        counter_get(q_queue', other) = counter_get(q_queue, other)

\* C12 as stated: from any reachable state add_cm removes the tagged frames,
\* increments the count of the innermost open scope identifier by one and
\* pushes one untagged frame holding the matrix above the untagged frames.
C12_AsStated ==
    [][op'.name = "add_cm"
       => /\ q_depth # <<>>
          /\ counter_get(q_queue', q_depth[Len(q_depth)])
               = counter_get(q_queue, q_depth[Len(q_depth)]) + 1
          /\ transform_stack'
               = <<[coef |-> op'.arg, is_text |-> FALSE, is_render |-> FALSE]>>
                 \o Graphics(transform_stack)]_vars

\* C12 amended: add_cm removes every tagged frame, pushes one untagged frame
\* holding the matrix above the untagged frames, which stay as they were and
\* in the same order, and leaves the open-scope list alone; when a scope is
\* open the count of the innermost one grows by one and no other count
\* changes, and when no scope is open no count changes.
C12_PushGraphics ==
    [][op'.name = "add_cm"
       => /\ err' = "ok"
          /\ transform_stack'
               = <<[coef |-> op'.arg, is_text |-> FALSE, is_render |-> FALSE]>>
                 \o Graphics(transform_stack)
          /\ \A i \in 1..Len(transform_stack') :
                IsGraphics(transform_stack'[i])
          /\ q_depth' = q_depth
          /\ IF q_depth = <<>>
             THEN q_queue' = q_queue
             ELSE /\ counter_get(q_queue', q_depth[Len(q_depth)])
                       = counter_get(q_queue, q_depth[Len(q_depth)]) + 1
                  /\ OtherCountsKept(q_depth[Len(q_depth)])]_vars

\* Reached: a push made when no scope is open, which no count records.
C12_Witness ==
    /\ op.name = "add_cm"
    /\ q_depth = <<>>
    /\ q_queue = <<>>
    /\ Len(transform_stack) >= 3
    /\ \A i \in 1..Len(transform_stack) : IsGraphics(transform_stack[i])

\* The untagged frames on the stack that were not pushed under scope id, in
\* stack order
OutsideScope(id) ==
    LET pairs == [i \in 1..Len(transform_stack) |->
                    [frame |-> transform_stack[i], scope |-> pushed_in[i]]]
        kept == SelectSeq(pairs,
                    LAMBDA p : IsGraphics(p.frame) /\ p.scope # id)
    IN [i \in 1..Len(kept) |-> kept[i].frame]

\* C13: with a scope open, remove_q succeeds, removes all tagged frames, takes
\* the innermost identifier off the open-scope list, pops as many untagged
\* frames as are recorded for it (none if nothing is recorded) and forgets
\* that count; what stays is exactly the untagged frames pushed under other
\* scopes, and the other counts are unchanged.
C13_CloseScope ==
    [][op'.name = "remove_q" /\ q_depth # <<>>
       => LET id == q_depth[Len(q_depth)]
              n == counter_get(q_queue, id)
              g == Graphics(transform_stack)
          IN /\ err' = "ok"
             /\ q_depth' = SubSeq(q_depth, 1, Len(q_depth) - 1)
             /\ id \notin DOMAIN q_queue'
             /\ OtherCountsKept(id)
             /\ n < Len(g)
             /\ transform_stack' = SubSeq(g, n + 1, Len(g))
             /\ transform_stack' = OutsideScope(id)]_vars

\* Reached: an inner scope has been closed and the frames and counts of the
\* enclosing scope are still there.
C13_Witness ==
    /\ op.name = "remove_q"
    /\ err = "ok"
    /\ q_depth # <<>>
    /\ Len(transform_stack) >= 3
    /\ counter_get(q_queue, q_depth[Len(q_depth)]) = Len(transform_stack) - 1

\* Byte by byte: the table's string for a byte in the table, else the one
\* character whose code point is the byte
RECURSIVE EachByte(_, _)
EachByte(table, b) ==
    IF b = <<>> THEN <<>>
    ELSE (IF Head(b) \in DOMAIN table THEN table[Head(b)] ELSE <<Head(b)>>)
         \o EachByte(table, Tail(b))

\* C14: with a table font (and nothing to substitute afterwards), decode
\* gives for each byte, independently of the others, the table's string or
\* else the character whose code point is the byte.
C14_AsStated ==
    (op.name = "decode" /\ font # <<>> /\ ~font[1].encoding.is_str
     /\ DOMAIN font[1].char_map = {})
        => ret = Returned("str", EachByte(font[1].encoding.table, op.arg))

\* The state the manager was in at the call after trace[i], or is in now
\* when trace[i] is the last call
StateAfter(i) ==
    IF i < Len(trace) THEN trace[i + 1].at_call ELSE ManagerState

IsSnapshot(i) ==
    trace[i].name = "text_state_params" /\ trace[i].ret.kind = "TextStateParams"

\* C15: every snapshot returned so far holds the scalars, the font, the font
\* size and the effective transform of the state its call was made in, that
\* call left the manager's state as it was, and this stays so whatever was
\* called afterwards.
C15_SnapshotCaptures ==
    \A i \in 2..Len(trace) :
        IsSnapshot(i)
        => LET snap == trace[i].ret.val
               at == trace[i].at_call
           IN /\ <<snap.Tc, snap.Tw, snap.Tz, snap.TL, snap.Ts>> = at.scalars
              /\ <<<<snap.font>>, <<snap.font_size>>>> = at.fontstate
              /\ snap.transform = effective_transform_of(at.maps)
              /\ snap.transform = trace[i - 1].eff
              /\ StateAfter(i) = at

\* Reached: a snapshot was returned, then a parameter was set and a frame
\* pushed; the manager's values have moved on and the snapshot's have not.
C15_Witness ==
    \E i \in 2..Len(trace) :
        /\ IsSnapshot(i)
        /\ \E j \in (i + 1)..Len(trace) : trace[j].name = "set_state_param"
        /\ \E j \in (i + 1)..Len(trace) : trace[j].name = "add_cm"
        /\ trace[i].ret.val.Tc # Tc
        /\ trace[i].ret.val.transform # effective_transform
        /\ trace[i].ret.val.transform = trace[i - 1].eff

NoDuplicate(seq) ==
    \A i, j \in 1..Len(seq) : i # j => seq[i] # seq[j]

\* C16: the open-scope list never holds an identifier twice; each add_q
\* appends, as the innermost, an identifier that no open scope has.
C16_NoDuplicateIds ==
    /\ NoDuplicate(q_depth)
    /\ [][/\ NoDuplicate(q_depth')
          /\ (op'.name = "add_q"
              => /\ Len(q_depth') = Len(q_depth) + 1
                 /\ SubSeq(q_depth', 1, Len(q_depth)) = q_depth
                 /\ q_depth'[Len(q_depth')] \notin Range(q_depth))]_vars

\* Reached: opens and closes have interleaved; the implicit scope was closed
\* with frames left on the stack and its identifier 0 has been given out
\* again.
C16_Witness ==
    /\ op.name = "add_q"
    /\ q_depth = <<0>>
    /\ q_queue = <<>>
    /\ Len(transform_stack) >= 2

\* C17: every identifier with a nonzero count is on the open-scope list;
\* after a successful remove_q the identifier it closed has no count; the
\* identifier add_q hands out starts with no count.
C17_CountsDrained ==
    /\ \A id \in DOMAIN q_queue : q_queue[id] # 0 => id \in Range(q_depth)
    /\ [][/\ \A id \in DOMAIN q_queue' :
                q_queue'[id] # 0 => id \in Range(q_depth')
          /\ (op'.name = "remove_q" /\ err' = "ok"
              => counter_get(q_queue', q_depth[Len(q_depth)]) = 0)
          /\ (op'.name = "add_q"
              => counter_get(q_queue', q_depth'[Len(q_depth')]) = 0)]_vars

\* Reached: an inner scope was closed; nothing is recorded for its
\* identifier, while the enclosing scope keeps its frame and its count.
C17_Witness ==
    /\ op.name = "remove_q"
    /\ err = "ok"
    /\ q_depth = <<0>>
    /\ counter_get(q_queue, 0) = 1
    /\ counter_get(q_queue, 1) = 0
    /\ Len(transform_stack) = 2

\* C18: add_q changes the open-scope list and nothing else: the stack, the
\* counts, the scalars and the font state are as they were.
C18_OpenScopeOnly ==
    [][op'.name = "add_q"
       => /\ q_depth' = Append(q_depth, q_depth'[Len(q_depth')])
          /\ transform_stack' = transform_stack
          /\ q_queue' = q_queue
          /\ scalars' = scalars
          /\ fontstate' = fontstate
          /\ err' = "ok"]_vars

\* Reached: add_q called on a manager with a pushed frame, a count, a
\* parameter set and a font.
C18_Witness ==
    /\ op.name = "add_q"
    /\ Len(q_depth) >= 2
    /\ Len(transform_stack) >= 2
    /\ q_queue # <<>>
    /\ Tc = 5
    /\ font # <<>>

\* No untagged frame lies above a tagged one (index 1 is the newest frame)
Layered(maps) ==
    \A i, j \in 1..Len(maps) :
        (i < j /\ IsGraphics(maps[i])) => IsGraphics(maps[j])

\* C19: in every state no untagged frame lies above a tagged frame; reset_tm
\* therefore leaves exactly the untagged frames: no tagged frame stays and no
\* untagged frame goes.
C19_Layering ==
    /\ Layered(transform_stack)
    /\ [][/\ Layered(transform_stack')
          /\ (op'.name = "reset_tm"
              => transform_stack' = Graphics(transform_stack))]_vars

\* Reached: a render frame above a text frame above a graphics frame above
\* the root.
C19_Witness ==
    /\ op.name = "add_trm"
    /\ Len(transform_stack) = 4
    /\ transform_stack[1].is_render
    /\ transform_stack[2].is_text /\ ~transform_stack[2].is_render
    /\ IsGraphics(transform_stack[3])

\* C20: a new manager has scope 0 open and nothing counted; frames pushed
\* while only scope 0 is open are counted for 0 and the remove_q that closes
\* 0 succeeds and removes them; remove_q fails exactly when the open-scope
\* list is empty, and then it removes no untagged frame and changes no count.
C20_ImplicitScope ==
    /\ (q_depth = <<0>> /\ q_queue = <<>>)
    /\ [][/\ (op'.name = "add_cm" /\ q_depth = <<0>>
              => counter_get(q_queue', 0) = counter_get(q_queue, 0) + 1)
          /\ (op'.name = "remove_q"
              => /\ (err' # "ok") <=> (q_depth = <<>>)
                 /\ (q_depth = <<0>>
                     => /\ transform_stack' = OutsideScope(0)
                        /\ q_depth' = <<>>)
                 /\ (q_depth = <<>>
                     => /\ err' = "IndexError"
                        /\ transform_stack' = Graphics(transform_stack)
                        /\ q_queue' = q_queue
                        /\ q_depth' = q_depth))]_vars

\* Reached: remove_q has failed on an empty open-scope list, with a graphics
\* frame on the stack that it left there.
C20_Witness ==
    /\ op.name = "remove_q"
    /\ err = "IndexError"
    /\ q_depth = <<>>
    /\ Len(transform_stack) >= 2
    /\ IsGraphics(transform_stack[1])

====
